---------------------------- MODULE Spec2Model ----------------------------
(***************************************************************************)
(* Model of src/c/tree.c: the in-memory radix tree of the MaxMind DB       *)
(* writer (insert, delete, lookup, IPv4 aliasing, node numbering, search   *)
(* tree output, destruction).                                              *)
(*                                                                         *)
(* Address widths are scaled down: an IPv4 address has V4Bits bits (32 in  *)
(* the program), an IPv6 address V6Bits bits (128), the v4-mapped prefix   *)
(* ::ffff:0:0/96 is ZeroBits zero bits (80) followed by OnesBits one bits  *)
(* (16), and 2002::/16 is the bit pattern Prefix2002.  Everything else     *)
(* (bit extraction, 8-bit mask arithmetic, descent, materialisation,       *)
(* sibling merge, iteration, flags) follows the C code statement by        *)
(* statement.  A node handle is the value of next_node at allocation.      *)
(***************************************************************************)
EXTENDS Integers, Sequences, FiniteSets, TLC

(* ------------------------------ bounds -------------------------------- *)
V4Bits == 2
ZeroBits == 2
OnesBits == 2
MaxOps == 3

V6Bits == ZeroBits + OnesBits + V4Bits
Prefix2002 == <<1, 0>>

(* ------------------------- program constants -------------------------- *)
AF_INET == "AF_INET"
AF_INET6 == "AF_INET6"
MMDBW_RECORD_TYPE_EMPTY == "EMPTY"
MMDBW_RECORD_TYPE_NODE == "NODE"
MMDBW_RECORD_TYPE_DATA == "DATA"
DATA_SECTION_SEPARATOR_SIZE == 16
default_nodes_per_alloc == 262144
UINT8_MOD == 256
NULL == -1
PL_sv_undef == "undef"

(* ------------------------------ helpers ------------------------------- *)
Rep(b, n) == [i \in 1..n |-> b]

BitAt(bits, i) == IF i <= Len(bits) THEN bits[i] ELSE 0

(* The address bytes getaddrinfo returns: network byte order, the first   *)
(* address bit is the most significant bit of byte 0.                     *)
BytesOfBits(bits) ==
    [j \in 1..((Len(bits) + 7) \div 8) |->
        BitAt(bits, 8*(j-1)+1) * 128 + BitAt(bits, 8*(j-1)+2) * 64
      + BitAt(bits, 8*(j-1)+3) * 32  + BitAt(bits, 8*(j-1)+4) * 16
      + BitAt(bits, 8*(j-1)+5) * 8   + BitAt(bits, 8*(j-1)+6) * 4
      + BitAt(bits, 8*(j-1)+7) * 2   + BitAt(bits, 8*(j-1)+8)]

(* An address string: a v4 literal ("1.2.3.4") or a v6 literal (with ':'). *)
V4Str(bits) == [lit |-> "v4", bits |-> bits]
V6Str(bits) == [lit |-> "v6", bits |-> bits]

MappedPrefix == Rep(0, ZeroBits) \o Rep(1, OnesBits)

(* resolve_network: getaddrinfo with AI_V4MAPPED for a v6 tree or a v6    *)
(* literal, plain AF_INET otherwise.                                      *)
resolve_network(tree, ipstr, mask_length) ==
    IF tree.ip_version = 6 \/ ipstr.lit = "v6"
    THEN [family |-> AF_INET6,
          max_depth0 |-> V6Bits - 1,
          mask_length |-> mask_length,
          bytes |-> BytesOfBits(IF ipstr.lit = "v4"
                                THEN MappedPrefix \o ipstr.bits
                                ELSE ipstr.bits)]
    ELSE [family |-> AF_INET,
          max_depth0 |-> V4Bits - 1,
          mask_length |-> mask_length,
          bytes |-> BytesOfBits(ipstr.bits)]

(* NETWORK_BIT_VALUE: bytes[(max_depth0 - current_bit) >> 3]              *)
(*                    & (1 << (~(max_depth0 - current_bit) & 7))          *)
BitOfByte(byte, shift) == ((byte \div (2 ^ shift)) % 2) * (2 ^ shift)

(* mutant: the bits of a byte are taken from the least significant end *)
NETWORK_BIT_VALUE_lsb_first(network, current_bit) ==
    BitOfByte(network.bytes[((network.max_depth0 - current_bit) \div 8) + 1],
              (network.max_depth0 - current_bit) % 8)

NETWORK_BIT_VALUE(network, current_bit) ==
    BitOfByte(network.bytes[((network.max_depth0 - current_bit) \div 8) + 1],
              7 - ((network.max_depth0 - current_bit) % 8))

(* ------------------------------- nodes -------------------------------- *)
(* Intermediate results are passed on as operator arguments (one operator *)
(* per group of C statements), so that each is computed once.             *)
EmptyRecord == [type |-> MMDBW_RECORD_TYPE_EMPTY, value |-> 0]
NodeRecord(n) == [type |-> MMDBW_RECORD_TYPE_NODE, value |-> n]
DataRecord(k) == [type |-> MMDBW_RECORD_TYPE_DATA, value |-> k]

Node(tree, n) == tree.node_pool[n + 1]

RecordOf(tree, n, is_right) ==
    IF is_right THEN Node(tree, n).right_record ELSE Node(tree, n).left_record

SetRecord(tree, n, is_right, rec) ==
    IF is_right
    THEN [tree EXCEPT !.node_pool[n + 1].right_record = rec]
    ELSE [tree EXCEPT !.node_pool[n + 1].left_record = rec]

(* sizeof(MMDBW_node_s): two records of a type and a pointer-sized value, *)
(* and a 32-bit number, on a 64-bit build.                                *)
node_size == 40

(* new_node, after the pool was grown *)
new_node_take(grown) ==
    [tree |-> [grown EXCEPT
                 !.next_node = @ + 1,
                 !.node_pool = Append(@, [number |-> 0,
                                          left_record |-> EmptyRecord,
                                          right_record |-> EmptyRecord])],
     node |-> grown.next_node]

new_node(tree) ==
    new_node_take(IF tree.next_node >= tree.allocated_nodes
                  THEN [tree EXCEPT !.pool_bytes =
                                         tree.nodes_per_alloc * node_size,
                                    !.allocated_nodes =
                                         @ + tree.nodes_per_alloc]
                  ELSE tree)

(* the byte offset in the pool of the node with handle h:                 *)
(* (MMDBW_node_s * )node_pool + (next_node * node_size)                   *)
NodeOffset(h) == h * node_size * node_size

(* every node handed out lies inside the block realloc returned *)
PoolIntact(tree) ==
    \A h \in 0..(tree.next_node - 1) :
        NodeOffset(h) + node_size <= tree.pool_bytes

(* mutant: the read-only descent materializes like the writing one *)
return_null_new_node(tree, record) == new_node(tree)

return_null(tree, record) == [tree |-> tree, node |-> NULL]

(* make_next_node, r the result of new_node *)
(* mutant: only the left record of the new node inherits the DATA record *)
make_next_node_fill_left(r, record) ==
    IF record.type = MMDBW_RECORD_TYPE_DATA
    THEN [tree |-> SetRecord(r.tree, r.node, FALSE, DataRecord(record.value)),
          node |-> r.node]
    ELSE r

(* mutant: the new node does not inherit the DATA record it replaces *)
make_next_node_fill_empty(r, record) == r

make_next_node_fill(r, record) ==
    IF record.type = MMDBW_RECORD_TYPE_DATA
    THEN [tree |-> SetRecord(SetRecord(r.tree, r.node, TRUE,
                                       DataRecord(record.value)),
                             r.node, FALSE, DataRecord(record.value)),
          node |-> r.node]
    ELSE r

make_next_node(tree, record) == make_next_node_fill(new_node(tree), record)

if_not_node_call(if_not_node, tree, record) ==
    IF if_not_node = "make_next_node"
    THEN make_next_node(tree, record)
    ELSE return_null(tree, record)

(* The for loop of find_node_for_network, one iteration per call of       *)
(* find_node_loop: find_node_step reads the record, find_node_link        *)
(* returns or installs the next node and goes on.                         *)
RECURSIVE find_node_loop(_, _, _, _, _, _)

find_node_link(network, if_not_node, node, current_bit, last_bit, next_is_right, tree, r) ==
    IF r.node = NULL
    THEN [tree |-> tree, node |-> node, current_bit |-> current_bit]
    ELSE find_node_loop(SetRecord(r.tree, node, next_is_right,
                                  NodeRecord(r.node)),
                        network, if_not_node, r.node, current_bit - 1,
                        last_bit)

find_node_step(tree, network, if_not_node, node, current_bit, last_bit, next_is_right, record) ==
    find_node_link(network, if_not_node, node, current_bit, last_bit,
                   next_is_right, tree,
                   IF record.type = MMDBW_RECORD_TYPE_NODE
                   THEN [tree |-> tree, node |-> record.value]
                   ELSE if_not_node_call(if_not_node, tree, record))

find_node_loop(tree, network, if_not_node, node, current_bit, last_bit) ==
    IF current_bit > last_bit
    THEN find_node_step(tree, network, if_not_node, node, current_bit,
                        last_bit,
                        NETWORK_BIT_VALUE(network, current_bit) # 0,
                        RecordOf(tree, node,
                                 NETWORK_BIT_VALUE(network, current_bit) # 0))
    ELSE [tree |-> tree, node |-> node, current_bit |-> current_bit]

(* mutant: last_bit computed from mask_length instead of mask_length - 1 *)
find_node_for_network_last_bit(tree, network, if_not_node) ==
    find_node_loop(tree, network, if_not_node, tree.root_node,
                   network.max_depth0,
                   (network.max_depth0 - network.mask_length) % UINT8_MOD)

find_node_for_network(tree, network, if_not_node) ==
    find_node_loop(tree, network, if_not_node, tree.root_node,
                   network.max_depth0,
                   (network.max_depth0 - (network.mask_length - 1))
                       % UINT8_MOD)

(* The mask length of the next call of insert_record_for_network that     *)
(* walks the tree.  The C code passes mask_length - 1 in 8 bits.  A call  *)
(* whose mask length is 0 or above max_depth0 + 1 has last_bit above      *)
(* max_depth0, so its loop does not run: it selects the root's record for *)
(* the first address bit, makes the same merge test as its caller (the    *)
(* tree is unchanged), recurses, and on return repeats its caller's       *)
(* write.  The chain of such calls (0, 255, 254, ...) is folded into the  *)
(* call it ends in, the one with mask length max_depth0 + 1.              *)
ParentMaskLength(network) ==
    IF (network.mask_length - 1) % UINT8_MOD = 0
       \/ (network.mask_length - 1) % UINT8_MOD > network.max_depth0 + 1
    THEN network.max_depth0 + 1
    ELSE (network.mask_length - 1) % UINT8_MOD

(* mutant: equal siblings are never merged into their parent *)
SameData_never(new_record, other_record) == FALSE

SameData(new_record, other_record) ==
    /\ new_record.type = MMDBW_RECORD_TYPE_DATA
    /\ other_record.type = MMDBW_RECORD_TYPE_DATA
    /\ new_record.value = other_record.value

(* insert_record_for_network.  The recursion has no base case of its own: *)
(* a call that re-enters with mask length max_depth0 + 1 on the tree it   *)
(* had at its previous entry with that mask length recurses forever       *)
(* (stack exhaustion): overflow = TRUE.                                   *)
RECURSIVE insert_record_rec(_, _, _, _)

(* the assignment to record_to_set, r the tree after the recursive call *)
insert_record_set(node_to_set, is_right, new_record, r) ==
    IF r.overflow
    THEN r
    ELSE [tree |-> SetRecord(r.tree, node_to_set, is_right, new_record),
          overflow |-> FALSE]

(* after find_node_for_network returned f *)
insert_record_found(network, new_record, snap, f) ==
    insert_record_set(
        f.node, NETWORK_BIT_VALUE(network, f.current_bit) # 0, new_record,
        IF SameData(new_record,
                    RecordOf(f.tree, f.node,
                             NETWORK_BIT_VALUE(network, f.current_bit) = 0))
        THEN insert_record_rec(
                 f.tree,
                 [network EXCEPT !.mask_length = ParentMaskLength(network)],
                 new_record, snap)
        ELSE [tree |-> f.tree, overflow |-> FALSE])

insert_record_rec(tree, network, new_record, snap) ==
    IF network.mask_length = network.max_depth0 + 1 /\ snap = <<tree>>
    THEN [tree |-> tree, overflow |-> TRUE]
    ELSE insert_record_found(
             network, new_record,
             IF network.mask_length = network.max_depth0 + 1
             THEN <<tree>> ELSE snap,
             find_node_for_network(tree, network, "make_next_node"))

insert_record_for_network(tree, network, new_record) ==
    insert_record_rec(tree, network, new_record, <<>>)

(* ------------------------- prefix operations -------------------------- *)
SvREFCNT_inc(refcnt, sv) ==
    [x \in DOMAIN refcnt \cup {sv} |->
        IF x = sv
        THEN (IF sv \in DOMAIN refcnt THEN refcnt[sv] ELSE 0) + 1
        ELSE refcnt[x]]

SvREFCNT_dec(refcnt, sv) ==
    [x \in DOMAIN refcnt \cup {sv} |->
        IF x = sv
        THEN (IF sv \in DOMAIN refcnt THEN refcnt[sv] ELSE 0) - 1
        ELSE refcnt[x]]

(* hv_store_ent(tree->data_hash, key, data, 0): the hash takes over the   *)
(* reference the caller added and releases the value it replaces.         *)
hv_store_ent(w, key, data) ==
    [w EXCEPT
       !.tree.data_hash = [k \in DOMAIN w.tree.data_hash \cup {key} |->
                              IF k = key THEN data ELSE w.tree.data_hash[k]],
       !.data_refcnt = IF key \in DOMAIN w.tree.data_hash
                       THEN SvREFCNT_dec(@, w.tree.data_hash[key])
                       ELSE @]

data_for_key(tree, key) ==
    IF key \in DOMAIN tree.data_hash
    THEN tree.data_hash[key]
    ELSE PL_sv_undef

(* insert_network on the world w = [tree, key_refcnt, data_refcnt, ...];  *)
(* ret is the C return value, overflow tells that the call never returns. *)
insert_network_done(w2, r) ==
    IF r.overflow
    THEN [w |-> [w2 EXCEPT !.tree = r.tree], ret |-> 0, overflow |-> TRUE]
    ELSE [w |-> [w2 EXCEPT !.tree = [r.tree EXCEPT !.is_finalized = FALSE]],
          ret |-> 0, overflow |-> FALSE]

insert_network_store(w2, network, key) ==
    insert_network_done(
        w2, insert_record_for_network(w2.tree, network, DataRecord(key)))

(* mutant: the family test is made after the key and data were stored *)
insert_network_resolved_late(w, network, key, data) ==
    IF w.tree.ip_version = 4 /\ network.family = AF_INET6
    THEN [w |-> hv_store_ent([w EXCEPT !.key_refcnt = SvREFCNT_inc(@, key),
                                       !.data_refcnt = SvREFCNT_inc(@, data)],
                             key, data),
          ret |-> -1, overflow |-> FALSE]
    ELSE insert_network_store(
             hv_store_ent([w EXCEPT !.key_refcnt = SvREFCNT_inc(@, key),
                                    !.data_refcnt = SvREFCNT_inc(@, data)],
                          key, data),
             network, key)

insert_network_resolved(w, network, key, data) ==
    IF w.tree.ip_version = 4 /\ network.family = AF_INET6
    THEN [w |-> w, ret |-> -1, overflow |-> FALSE]
    ELSE insert_network_store(
             hv_store_ent([w EXCEPT !.key_refcnt = SvREFCNT_inc(@, key),
                                    !.data_refcnt = SvREFCNT_inc(@, data)],
                          key, data),
             network, key)

insert_network(w, ipstr, mask_length, key, data) ==
    insert_network_resolved(w, resolve_network(w.tree, ipstr, mask_length),
                            key, data)

tree_has_network_at(network, f) ==
    [tree |-> f.tree,
     ret |-> MMDBW_RECORD_TYPE_EMPTY
                 # RecordOf(f.tree, f.node,
                            NETWORK_BIT_VALUE(network, f.current_bit) # 0).type]

tree_has_network(tree, network) ==
    tree_has_network_at(
        network, find_node_for_network(tree, network, "return_null"))

(* mutant: the test of tree_has_network inverted *)
delete_network_if_absent(network, h) ==
    IF ~h.ret
    THEN insert_record_for_network(h.tree, network, EmptyRecord).tree
    ELSE h.tree

delete_network_if(network, h) ==
    IF h.ret
    THEN insert_record_for_network(h.tree, network, EmptyRecord).tree
    ELSE h.tree

(* mutant: no test of tree_has_network, EMPTY is always inserted *)
delete_network_resolved_always(tree, network) ==
    IF tree.ip_version = 4 /\ network.family = AF_INET6
    THEN tree
    ELSE insert_record_for_network(tree, network, EmptyRecord).tree

delete_network_resolved(tree, network) ==
    IF tree.ip_version = 4 /\ network.family = AF_INET6
    THEN tree
    ELSE delete_network_if(network, tree_has_network(tree, network))

delete_network(tree, ipstr, mask_length) ==
    delete_network_resolved(tree, resolve_network(tree, ipstr, mask_length))

(* The reserved networks, scaled: 0.0.0.0/8 ... 240.0.0.0/4 become two    *)
(* IPv4 prefixes, 100::/64 ... ff00::/8 one IPv6 prefix.                  *)
ipv4_reserved ==
    << [ipstr |-> V4Str(Rep(0, V4Bits)), mask_length |-> V4Bits],
       [ipstr |-> V4Str(Rep(1, V4Bits)), mask_length |-> V4Bits - 1] >>

ipv6_reserved ==
    << [ipstr |-> V6Str(<<1, 1>> \o Rep(0, V6Bits - 2)), mask_length |-> 2] >>

(* the loops of delete_reserved_networks; extra is the + 96 *)
RECURSIVE delete_each(_, _, _, _)
delete_each(tree, list, i, extra) ==
    IF i > Len(list)
    THEN tree
    ELSE delete_each(delete_network(tree, list[i].ipstr,
                                    list[i].mask_length + extra),
                     list, i + 1, extra)

delete_reserved_networks(tree) ==
    IF tree.ip_version = 4
    THEN delete_each(tree, ipv4_reserved, 1, 0)
    ELSE delete_each(delete_each(tree, ipv4_reserved, 1,
                                 ZeroBits + OnesBits),
                     ipv6_reserved, 1, 0)

(* ::ffff:0:0/95 and 2002::/16 *)
ipv4_aliases ==
    << [ipstr |-> V6Str(MappedPrefix \o Rep(0, V4Bits)),
        mask_length |-> ZeroBits + OnesBits - 1],
       [ipstr |-> V6Str(Prefix2002 \o Rep(0, V6Bits - Len(Prefix2002))),
        mask_length |-> Len(Prefix2002)] >>

alias_set(alias_network, ipv4_root_node, f) ==
    SetRecord(f.tree, f.node,
              NETWORK_BIT_VALUE(alias_network, f.current_bit) # 0,
              NodeRecord(ipv4_root_node))

alias_one(tree, alias_network, ipv4_root_node) ==
    alias_set(alias_network, ipv4_root_node,
              find_node_for_network(tree, alias_network, "make_next_node"))

(* the for loop of alias_ipv4_networks *)
RECURSIVE alias_each(_, _, _)
alias_each(tree, ipv4_root_node, i) ==
    IF i > Len(ipv4_aliases)
    THEN tree
    ELSE alias_each(
             alias_one(tree,
                       resolve_network(tree, ipv4_aliases[i].ipstr,
                                       ipv4_aliases[i].mask_length),
                       ipv4_root_node),
             ipv4_root_node, i + 1)

(* The test 32 != current_bit: 32 is max_depth0 - 95, here V4Bits.        *)
alias_ipv4_found(f) ==
    IF V4Bits # f.current_bit
    THEN f.tree
    ELSE alias_each(f.tree, f.node, 1)

(* "::0.0.0.0"/96 *)
alias_ipv4_networks(tree) ==
    IF tree.ip_version = 4
    THEN tree
    ELSE alias_ipv4_found(
             find_node_for_network(
                 tree,
                 resolve_network(tree, V6Str(Rep(0, V6Bits)),
                                 ZeroBits + OnesBits),
                 "return_null"))

(* lookup_ip_address: ret is the value, undef, or "croak".                *)
lookup_record(tree, record_for_address) ==
    [tree |-> tree,
     ret |-> IF record_for_address.type = MMDBW_RECORD_TYPE_NODE
             THEN "croak"
             ELSE IF record_for_address.type = MMDBW_RECORD_TYPE_EMPTY
             THEN PL_sv_undef
             ELSE data_for_key(tree, record_for_address.value)]

lookup_found(network, f) ==
    lookup_record(f.tree,
                  RecordOf(f.tree, f.node,
                           NETWORK_BIT_VALUE(network, f.current_bit) # 0))

lookup_resolved(tree, network) ==
    lookup_found(network,
                 find_node_for_network(tree, network, "return_null"))

lookup_ip_address(tree, ipstr) ==
    lookup_resolved(tree,
                    resolve_network(tree, ipstr,
                                    IF tree.ip_version = 6
                                    THEN V6Bits ELSE V4Bits))

(* ---------------------- numbering and output -------------------------- *)
assign_node_number(w, node) ==
    [w EXCEPT !.tree.node_pool[node + 1].number = w.tree.node_count,
              !.tree.node_count = @ + 1]

(* A uint32_t is the pair of its high and low 16 bits. *)
U32(n) == << (n \div 65536) % 65536, n % 65536 >>

(* uint32_t addition: the carry out of bit 31 is lost *)
Add32(a, b) ==
    << (a[1] + b[1] + ((a[2] + b[2]) \div 65536)) % 65536,
       (a[2] + b[2]) % 65536 >>

(* store_data of the serializer (Perl, not in tree.c): the position of    *)
(* the value in the data section, as (uint32_t)SvUV gives it.  The values *)
(* are 0, 5, 0x123445, 0xAB123445 and 2^32 - 17.                          *)
store_data(data) ==
    IF data = "v1" THEN U32(0)
    ELSE IF data = "v2" THEN U32(5)
    ELSE IF data = "v3" THEN << 18, 13381 >>
    ELSE IF data = "v4" THEN << 43794, 13381 >>
    ELSE IF data = "v5" THEN << 65535, 65519 >>
    ELSE U32(9)

record_value_as_number(tree, record) ==
    IF record.type = MMDBW_RECORD_TYPE_EMPTY
    THEN U32(0)
    ELSE IF record.type = MMDBW_RECORD_TYPE_NODE
    THEN U32(Node(tree, record.value).number)
    ELSE Add32(Add32(store_data(data_for_key(tree, record.value)),
                     U32(tree.node_count)),
               U32(DATA_SECTION_SEPARATOR_SIZE))

(* The four bytes of a uint32_t as they lie in memory (the uint8_t        *)
(* pointer cast of encode_node).                                          *)
MemoryBytes(x, byte_order) ==
    IF byte_order = "big"
    THEN << x[1] \div 256, x[1] % 256, x[2] \div 256, x[2] % 256 >>
    ELSE << x[2] % 256, x[2] \div 256, x[1] % 256, x[1] \div 256 >>

(* the fprintf calls; left_bytes[i] of the C code is lb[i + 1] *)
encode_node_bytes(w, lb, rb) ==
    [w EXCEPT !.output =
        Append(@, IF w.tree.record_size = 24
                  THEN << lb[2], lb[3], lb[4], rb[2], rb[3], rb[4] >>
                  ELSE IF w.tree.record_size = 28
                  THEN << lb[2], lb[3], lb[4],
                          ((lb[1] * 16) + (rb[1] % 16)) % 256,
                          rb[2], rb[3], rb[4] >>
                  ELSE << lb[1], lb[2], lb[3], lb[4],
                          rb[1], rb[2], rb[3], rb[4] >>)]

encode_node(w, node) ==
    encode_node_bytes(
        w,
        MemoryBytes(record_value_as_number(w.tree,
                                           Node(w.tree, node).left_record),
                    w.byte_order),
        MemoryBytes(record_value_as_number(w.tree,
                                           Node(w.tree, node).right_record),
                    w.byte_order))

key_refcnt_dec_record(w, record) ==
    IF record.type = MMDBW_RECORD_TYPE_DATA
    THEN [w EXCEPT !.key_refcnt = SvREFCNT_dec(@, record.value)]
    ELSE w

key_refcnt_dec(w, node) ==
    key_refcnt_dec_record(
        key_refcnt_dec_record(w, Node(w.tree, node).left_record),
        Node(w.tree, node).right_record)

callback_call(callback, w, node) ==
    IF callback = "assign_node_number"
    THEN assign_node_number(w, node)
    ELSE IF callback = "encode_node"
    THEN encode_node(w, node)
    ELSE key_refcnt_dec(w, node)

RECURSIVE iterate_tree(_, _, _, _)

(* l: the world and the seen nodes after the left subtree *)
iterate_tree_right(l, node, callback) ==
    IF Node(l.w.tree, node).right_record.type = MMDBW_RECORD_TYPE_NODE
    THEN iterate_tree(l.w, Node(l.w.tree, node).right_record.value,
                      l.seen_nodes, callback)
    ELSE l

(* w1: the world after the callback *)
iterate_tree_left(w1, node, seen1, callback) ==
    iterate_tree_right(
        IF Node(w1.tree, node).left_record.type = MMDBW_RECORD_TYPE_NODE
        THEN iterate_tree(w1, Node(w1.tree, node).left_record.value,
                          seen1, callback)
        ELSE [w |-> w1, seen_nodes |-> seen1],
        node, callback)

iterate_tree(w, node, seen_nodes, callback) ==
    IF node \in seen_nodes
    THEN [w |-> w, seen_nodes |-> seen_nodes]
    ELSE iterate_tree_left(callback_call(callback, w, node), node,
                           seen_nodes \cup {node}, callback)

(* start_iteration passes &assign_node_number, whatever callback it got.  *)
start_iteration(w, callback) ==
    iterate_tree(w, w.tree.root_node, {}, "assign_node_number").w

assign_node_numbers(w) ==
    start_iteration([w EXCEPT !.tree.node_count = 0], "assign_node_number")

finalize_tree(w) ==
    IF w.tree.is_finalized
    THEN w
    ELSE [assign_node_numbers(w) EXCEPT !.tree.is_finalized = TRUE]

write_search_tree(w) ==
    start_iteration(finalize_tree(w), "encode_node")

(* SvREFCNT_dec of the data hash releases every value it holds.           *)
RECURSIVE release_values(_, _, _)

release_value(refcnt, data_hash, keys, k) ==
    release_values(SvREFCNT_dec(refcnt, data_hash[k]), data_hash,
                   keys \ {k})

release_values(refcnt, data_hash, keys) ==
    IF keys = {}
    THEN refcnt
    ELSE release_value(refcnt, data_hash, keys, CHOOSE x \in keys : TRUE)

free_tree_hash(w1) ==
    [w1 EXCEPT !.data_refcnt =
                   release_values(@, w1.tree.data_hash,
                                  DOMAIN w1.tree.data_hash)]

free_tree(w) == free_tree_hash(start_iteration(w, "key_refcnt_dec"))

(* ------------------------------ state --------------------------------- *)
VARIABLES
    tree,         \* the MMDBW_tree_s and its node pool
    key_refcnt,   \* references the tree holds on each key SV
    data_refcnt,  \* references the tree holds on each data SV
    output,       \* the node blobs written to the FILE
    status,       \* "live", "freed" (free_tree) or "crashed" (stack overflow)
    ops,          \* number of calls made
    history,      \* the calls made so far, each with the state it started in
    last          \* the last call, its arguments and its result

vars == <<tree, key_refcnt, data_refcnt, output, status, ops, history, last>>

(* node_count is not set by new_tree: it holds whatever malloc returned   *)
(* until finalize_tree assigns it.  The value is chosen where it is read. *)
Uninitialized == -1
GarbageCounts == {0, 7}
ByteOrders == {"little", "big"}

new_tree_root(r) == [r.tree EXCEPT !.root_node = r.node]

new_tree(ip_version, record_size, nodes_per_alloc) ==
    new_tree_root(
        new_node([ip_version |-> ip_version,
                  record_size |-> record_size,
                  data_hash |-> [k \in {} |-> PL_sv_undef],
                  node_pool |-> << >>,
                  pool_bytes |-> 0,
                  next_node |-> 0,
                  allocated_nodes |-> 0,
                  is_finalized |-> FALSE,
                  nodes_per_alloc |-> IF nodes_per_alloc > 0
                                      THEN nodes_per_alloc
                                      ELSE default_nodes_per_alloc,
                  node_count |-> Uninitialized,
                  root_node |-> NULL]))

World ==
    [tree |-> tree, key_refcnt |-> key_refcnt, data_refcnt |-> data_refcnt,
     output |-> output]

(* ------------------------------ inputs -------------------------------- *)
Keys == {"k1", "k2"}
Payloads == {[key |-> "k1", data |-> "v1"], [key |-> "k2", data |-> "v2"]}
NewTreeArgs == {<<4, 24>>, <<6, 32>>}

AllBits(n) == [1..n -> {0, 1}]

Canonical(bits, m) == \A i \in (m + 1)..Len(bits) : bits[i] = 0

Net(ipstr, m) == [ipstr |-> ipstr, mask_length |-> m]

HostStrings(ip_version) ==
    IF ip_version = 4
    THEN {V4Str(b) : b \in AllBits(V4Bits)}
    ELSE {V6Str(b) : b \in AllBits(V6Bits)}

(* Every prefix of the tree's family, written with zero host bits.        *)
AllNetworks(ip_version) ==
    {Net(h, m) : h \in HostStrings(ip_version),
                 m \in 0..(IF ip_version = 4 THEN V4Bits ELSE V6Bits)}

CanonicalNetworks(ip_version) ==
    {n \in AllNetworks(ip_version) : Canonical(n.ipstr.bits, n.mask_length)}

Offset == ZeroBits + OnesBits
Compat(a) == V6Str(Rep(0, Offset) \o a)
Via2002(a) == V6Str(Prefix2002 \o a \o Rep(0, V6Bits - Len(Prefix2002) - V4Bits))

(* The networks the calls of a run are drawn from.                        *)
TestNetworks(ip_version) ==
    IF ip_version = 4
    THEN CanonicalNetworks(4) \cup {Net(V4Str(Rep(1, V4Bits)), 1),
                                    Net(V6Str(Rep(0, V6Bits)), 1)}
    ELSE {Net(V6Str(Rep(0, V6Bits)), 0),
          Net(V6Str(Rep(0, V6Bits)), 1),
          Net(V6Str(<<1>> \o Rep(0, V6Bits - 1)), 1),
          Net(V6Str(Rep(0, V6Bits)), Offset - 1),
          Net(V6Str(Rep(0, V6Bits)), Offset),
          Net(V6Str(Rep(0, Offset - 1) \o <<1>> \o Rep(0, V4Bits)), Offset),
          Net(Compat(Rep(0, V4Bits - 1) \o <<1>>), V6Bits),
          Net(V4Str(Rep(0, V4Bits)), Offset + 1),
          Net(V4Str(Rep(0, V4Bits - 1) \o <<1>>), Offset + V4Bits),
          Net(Via2002(Rep(0, V4Bits - 1) \o <<1>>), V6Bits)}

TestHosts(ip_version) ==
    IF ip_version = 4
    THEN {V4Str(Rep(0, V4Bits)), V4Str(Rep(1, V4Bits))}
    ELSE {V4Str(Rep(0, V4Bits - 1) \o <<1>>),
          Compat(Rep(0, V4Bits - 1) \o <<1>>),
          Via2002(Rep(0, V4Bits - 1) \o <<1>>)}

NoStr == [lit |-> "none", bits |-> << >>]

Call(op, ipstr, mask_length, key, data, ret) ==
    [op |-> op, ipstr |-> ipstr, mask_length |-> mask_length,
     key |-> key, data |-> data, ret |-> ret]

(* ------------------------------ actions ------------------------------- *)
Init ==
    /\ \E a \in NewTreeArgs : tree = new_tree(a[1], a[2], 0)
    /\ key_refcnt = [k \in {} |-> 0]
    /\ data_refcnt = [k \in {} |-> 0]
    /\ output = << >>
    /\ status = "live"
    /\ ops = 0
    /\ history = << >>
    /\ last = Call("new_tree", NoStr, 0, "none", "none", "void")

Callable == status = "live" /\ ops < MaxOps

(* A node written outside the pool is undefined behaviour: the program    *)
(* either goes on as if the memory were its own or stops behaving.        *)
StatusAfter(t) == IF PoolIntact(t) THEN {"live"} ELSE {"live", "undefined"}

(* bookkeeping of a call: the call count and the history *)
Called ==
    /\ ops' = ops + 1
    /\ history' = Append(history, [call |-> last', before |-> World])

InsertNetworkCall(n, p, r) ==
    /\ tree' = r.w.tree
    /\ key_refcnt' = r.w.key_refcnt
    /\ data_refcnt' = r.w.data_refcnt
    /\ status' \in (IF r.overflow THEN {"crashed"} ELSE StatusAfter(r.w.tree))
    /\ last' = Call("insert", n.ipstr, n.mask_length, p.key, p.data,
                    IF r.overflow THEN "overflow"
                    ELSE IF r.ret = 0 THEN "0" ELSE "-1")

InsertNetwork ==
    /\ Callable
    /\ \E n \in TestNetworks(tree.ip_version), p \in Payloads :
          InsertNetworkCall(n, p, insert_network(World, n.ipstr,
                                                 n.mask_length,
                                                 p.key, p.data))
    /\ Called
    /\ UNCHANGED output

DeleteNetwork ==
    /\ Callable
    /\ \E n \in TestNetworks(tree.ip_version) :
          /\ tree' = delete_network(tree, n.ipstr, n.mask_length)
          /\ last' = Call("delete", n.ipstr, n.mask_length, "none", "none",
                          "void")
    /\ Called
    /\ status' \in StatusAfter(tree')
    /\ UNCHANGED <<key_refcnt, data_refcnt, output>>

DeleteReservedNetworks ==
    /\ Callable
    /\ tree' = delete_reserved_networks(tree)
    /\ last' = Call("delete_reserved", NoStr, 0, "none", "none", "void")
    /\ Called
    /\ status' \in StatusAfter(tree')
    /\ UNCHANGED <<key_refcnt, data_refcnt, output>>

AliasIpv4Networks ==
    /\ Callable
    /\ tree' = alias_ipv4_networks(tree)
    /\ last' = Call("alias", NoStr, 0, "none", "none", "void")
    /\ Called
    /\ status' \in StatusAfter(tree')
    /\ UNCHANGED <<key_refcnt, data_refcnt, output>>

ContainsCall(n, r) ==
    /\ tree' = r.tree
    /\ last' = Call("contains", n.ipstr, n.mask_length, "none", "none",
                    IF r.ret THEN "true" ELSE "false")

Contains ==
    /\ Callable
    /\ \E n \in TestNetworks(tree.ip_version) :
          ContainsCall(n, tree_has_network(
                              tree, resolve_network(tree, n.ipstr,
                                                    n.mask_length)))
    /\ Called
    /\ UNCHANGED <<key_refcnt, data_refcnt, output, status>>

LookupCall(h, r) ==
    /\ tree' = r.tree
    /\ last' = Call("lookup", h, 0, "none", "none", r.ret)

LookupIpAddress ==
    /\ Callable
    /\ \E h \in TestHosts(tree.ip_version) :
          LookupCall(h, lookup_ip_address(tree, h))
    /\ Called
    /\ UNCHANGED <<key_refcnt, data_refcnt, output, status>>

FinalizeTree ==
    /\ Callable
    /\ tree' = finalize_tree(World).tree
    /\ last' = Call("finalize", NoStr, 0, "none", "none", "void")
    /\ Called
    /\ UNCHANGED <<key_refcnt, data_refcnt, output, status>>

WriteSearchTreeCall(w) ==
    /\ tree' = w.tree
    /\ output' = w.output

WriteSearchTree ==
    /\ Callable
    /\ \E byte_order \in ByteOrders :
          WriteSearchTreeCall(
              write_search_tree(
                  [tree |-> tree, key_refcnt |-> key_refcnt,
                   data_refcnt |-> data_refcnt, output |-> output,
                   byte_order |-> byte_order]))
    /\ last' = Call("write", NoStr, 0, "none", "none", "void")
    /\ Called
    /\ UNCHANGED <<key_refcnt, data_refcnt, status>>

FreeTreeCall(w) ==
    /\ tree' = w.tree
    /\ key_refcnt' = w.key_refcnt
    /\ data_refcnt' = w.data_refcnt

FreeTree ==
    /\ Callable
    /\ \E garbage \in GarbageCounts :
          FreeTreeCall(
              free_tree([World EXCEPT !.tree.node_count =
                             IF @ = Uninitialized THEN garbage ELSE @]))
    /\ status' = "freed"
    /\ last' = Call("free", NoStr, 0, "none", "none", "void")
    /\ Called
    /\ UNCHANGED output

Next ==
    \/ InsertNetwork
    \/ DeleteNetwork
    \/ DeleteReservedNetworks
    \/ AliasIpv4Networks
    \/ Contains
    \/ LookupIpAddress
    \/ FinalizeTree
    \/ WriteSearchTree
    \/ FreeTree

Spec == Init /\ [][Next]_vars

(* new_tree called with any arguments its signature admits *)
AnyTreeArgs == {<<6, 32, 0>>, <<5, 16, 0>>, <<4, 24, 1>>}

InitAnyArgs ==
    /\ \E a \in AnyTreeArgs : tree = new_tree(a[1], a[2], a[3])
    /\ key_refcnt = [k \in {} |-> 0]
    /\ data_refcnt = [k \in {} |-> 0]
    /\ output = << >>
    /\ status = "live"
    /\ ops = 0
    /\ history = << >>
    /\ last = Call("new_tree", NoStr, 0, "none", "none", "void")

SpecAnyArgs == InitAnyArgs /\ [][Next]_vars

(* ------------------ encoding the records of a node -------------------- *)
(* encode_node and record_value_as_number applied to the nodes of         *)
(* finalized trees, with data at small, large and very large positions.   *)
MaxEncodeOps == 2

EncodeTreeArgs == {<<4, 24>>, <<4, 28>>, <<4, 32>>}
EncodePayloads ==
    {[key |-> "k1", data |-> "v1"], [key |-> "k3", data |-> "v3"],
     [key |-> "k4", data |-> "v4"], [key |-> "k5", data |-> "v5"]}

(* the tree after the inserts (r is what the last one returned) *)
InitEncodeFinalized(w) ==
    /\ tree = w.tree
    /\ key_refcnt = w.key_refcnt
    /\ data_refcnt = w.data_refcnt
    /\ output = w.output

InitEncodeSecond(r, n, p) ==
    /\ ~r.overflow
    /\ InitEncodeFinalized(
           finalize_tree(insert_network(r.w, n.ipstr, n.mask_length,
                                        p.key, p.data).w))

InitEncode ==
    /\ \E a \in EncodeTreeArgs :
       \E n1 \in CanonicalNetworks(a[1]), n2 \in CanonicalNetworks(a[1]) :
       \E p1 \in EncodePayloads, p2 \in EncodePayloads :
          InitEncodeSecond(
              insert_network([tree |-> new_tree(a[1], a[2], 0),
                              key_refcnt |-> [k \in {} |-> 0],
                              data_refcnt |-> [k \in {} |-> 0],
                              output |-> << >>],
                             n1.ipstr, n1.mask_length, p1.key, p1.data),
              n2, p2)
    /\ status = "live"
    /\ ops = 0
    /\ history = << >>
    /\ last = Call("finalize", NoStr, 0, "none", "none", "void")

EncodeCallable == status = "live" /\ ops < MaxEncodeOps

EncodeNodeCall(node, byte_order, w) ==
    /\ output' = w.output
    /\ last' = [op |-> "encode_node", node |-> node,
                byte_order |-> byte_order, blob |-> w.output[Len(w.output)]]

EncodeNode ==
    /\ EncodeCallable
    /\ \E node \in 0..(tree.next_node - 1), byte_order \in ByteOrders :
          EncodeNodeCall(node, byte_order,
                         encode_node([tree |-> tree, output |-> output,
                                      byte_order |-> byte_order], node))
    /\ Called
    /\ UNCHANGED <<tree, key_refcnt, data_refcnt, status>>

RecordValueAsNumber ==
    /\ EncodeCallable
    /\ \E node \in 0..(tree.next_node - 1), is_right \in BOOLEAN :
          last' = [op |-> "record_value_as_number",
                   record |-> RecordOf(tree, node, is_right),
                   value |-> record_value_as_number(
                                 tree, RecordOf(tree, node, is_right))]
    /\ Called
    /\ UNCHANGED <<tree, key_refcnt, data_refcnt, output, status>>

NextEncode ==
    \/ EncodeNode
    \/ RecordValueAsNumber

SpecEncode == InitEncode /\ [][NextEncode]_vars

(* ---------------------------- observations ---------------------------- *)
(* What a caller can ask of a tree t, and the vocabulary of the           *)
(* properties below.                                                      *)
MaxDepth(t) == IF t.ip_version = 6 THEN V6Bits ELSE V4Bits

(* the address bits resolve_network gives the string in tree t *)
ResolvedBits(t, ipstr) ==
    IF t.ip_version = 6 /\ ipstr.lit = "v4"
    THEN MappedPrefix \o ipstr.bits
    ELSE ipstr.bits

(* host address a lies inside prefix n *)
Inside(t, a, n) ==
    \A i \in 1..n.mask_length :
        ResolvedBits(t, a)[i] = ResolvedBits(t, n.ipstr)[i]

contains(t, n) ==
    tree_has_network(t, resolve_network(t, n.ipstr, n.mask_length)).ret

lookup_host(t, a) == lookup_ip_address(t, a).ret

Hosts(t) == HostStrings(t.ip_version)

Returned(c) == c.op = "insert" /\ c.ret = "0"

CallNet(c) == Net(c.ipstr, c.mask_length)

(* ----------------------------- properties ----------------------------- *)
InsertedIsFound(t, n, v) ==
    /\ contains(t, n)
    /\ \A a \in Hosts(t) : Inside(t, a, n) => lookup_host(t, a) = v

(* C1, as claimed: right after insert(n, k, v) returned success, for any  *)
(* mask length in [0, max_depth], contains(n) is true and every host      *)
(* address inside n looks up v.                                           *)
C1_InsertedFoundFromMaskZero ==
    (Returned(last) /\ last.mask_length \in 0..MaxDepth(tree))
        => InsertedIsFound(tree, CallNet(last), last.data)

(* C1, amended: right after insert(n, k, v) returned success, for any     *)
(* mask length in [1, max_depth], contains(n) is true and every host      *)
(* address inside n looks up v.                                           *)
C1_InsertedFound ==
    (Returned(last) /\ last.mask_length \in 1..MaxDepth(tree))
        => InsertedIsFound(tree, CallNet(last), last.data)

(* C1 witness: an insert of a prefix shorter than a host address into a   *)
(* tree that already held data has returned, and two or more hosts look   *)
(* up its value.                                                          *)
C1_Witness ==
    /\ Returned(last)
    /\ last.mask_length \in 1..(MaxDepth(tree) - 1)
    /\ Len(history) >= 2
    /\ Returned(history[1].call)
    /\ history[1].call.key # last.key
    /\ Cardinality({a \in Hosts(tree) :
                       lookup_host(tree, a) = last.data}) >= 2

StrictlyInside(t, p, q) ==
    /\ p.mask_length > q.mask_length
    /\ Inside(t, p.ipstr, q)

MostSpecificWins(t, p, vp, q, vq) ==
    \A a \in Hosts(t) :
        /\ Inside(t, a, p) => lookup_host(t, a) = vp
        /\ (Inside(t, a, q) /\ ~Inside(t, a, p)) => lookup_host(t, a) = vq

(* the last two calls were inserts that returned, with different keys *)
TwoInserts(first, second) ==
    /\ Returned(first)
    /\ Returned(second)
    /\ first.key # second.key

LongestMatchAnyOrder(t, first, second) ==
    /\ StrictlyInside(t, CallNet(second), CallNet(first))
          => MostSpecificWins(t, CallNet(second), second.data,
                              CallNet(first), first.data)
    /\ StrictlyInside(t, CallNet(first), CallNet(second))
          => MostSpecificWins(t, CallNet(first), first.data,
                              CallNet(second), second.data)

LongestMatchInOrder(t, first, second) ==
    (first.mask_length >= 1
     /\ StrictlyInside(t, CallNet(second), CallNet(first)))
        => MostSpecificWins(t, CallNet(second), second.data,
                            CallNet(first), first.data)

(* C2, as claimed: after two inserts of prefixes p inside q with          *)
(* different keys, in either order, hosts inside p look up p's value and  *)
(* hosts inside q but outside p look up q's value.                        *)
C2_LongestMatchAnyOrder ==
    (Len(history) >= 2
     /\ TwoInserts(history[Len(history) - 1].call, last))
        => LongestMatchAnyOrder(tree, history[Len(history) - 1].call, last)

(* C2, amended: after insert of q (mask length at least 1) followed by    *)
(* insert of p strictly inside q with a different key, hosts inside p     *)
(* look up p's value and hosts inside q but outside p look up q's value.  *)
C2_LongestMatch ==
    (Len(history) >= 2
     /\ TwoInserts(history[Len(history) - 1].call, last))
        => LongestMatchInOrder(tree, history[Len(history) - 1].call, last)

(* C2 witness: q then p inside q were inserted with different keys, and   *)
(* some host inside q lies outside p.                                     *)
C2_Witness ==
    /\ Len(history) >= 2
    /\ TwoInserts(history[Len(history) - 1].call, last)
    /\ history[Len(history) - 1].call.mask_length >= 1
    /\ StrictlyInside(tree, CallNet(last),
                      CallNet(history[Len(history) - 1].call))
    /\ \E a \in Hosts(tree) :
          /\ Inside(tree, a, CallNet(history[Len(history) - 1].call))
          /\ ~Inside(tree, a, CallNet(last))
          /\ lookup_host(tree, a) = history[Len(history) - 1].call.data

(* n0 and n1 are the two prefixes of length m >= 1 under one parent *)
Siblings(t, n0, n1) ==
    /\ n0.mask_length = n1.mask_length
    /\ n0.mask_length \in 1..MaxDepth(t)
    /\ \A i \in 1..(n0.mask_length - 1) :
          ResolvedBits(t, n0.ipstr)[i] = ResolvedBits(t, n1.ipstr)[i]
    /\ ResolvedBits(t, n0.ipstr)[n0.mask_length]
          # ResolvedBits(t, n1.ipstr)[n0.mask_length]

(* all a caller can observe of tree t: contains for every prefix, lookup  *)
(* for every host, node_count after finalize                              *)
Observations(t) ==
    [contains |-> [n \in AllNetworks(t.ip_version) |-> contains(t, n)],
     lookup |-> [a \in Hosts(t) |-> lookup_host(t, a)],
     node_count |-> finalize_tree([tree |-> t]).tree.node_count]

(* insert(n0, k, v) returned and insert(n1, k, v) was called next *)
SiblingInserts(t, first, second) ==
    /\ Returned(first)
    /\ second.op = "insert"
    /\ second.ret # "-1"
    /\ first.key = second.key
    /\ first.data = second.data
    /\ Siblings(t, CallNet(first), CallNet(second))

(* parent: the result of insert(parent prefix, k, v) on the tree the      *)
(* pair started from                                                      *)
SameAsParentInsert(t, second, parent) ==
    /\ (second.ret = "overflow") = parent.overflow
    /\ ~parent.overflow => Observations(t) = Observations(parent.w.tree)

(* C3, as claimed: for sibling prefixes n0, n1 of length m >= 1,          *)
(* insert(n0,k,v); insert(n1,k,v) leaves a tree observationally equal to  *)
(* insert(parent of length m-1, k, v) on the same starting tree: contains *)
(* and lookup agree everywhere, node_count after finalize is identical.   *)
C3_SiblingMergeLaw ==
    (Len(history) >= 2
     /\ SiblingInserts(tree, history[Len(history) - 1].call, last))
        => SameAsParentInsert(
               tree, last,
               insert_network(history[Len(history) - 1].before,
                              last.ipstr, last.mask_length - 1,
                              last.key, last.data))

(* the three ways to look up the IPv4 host address a in a v6 tree *)
AliasLookupsAgree(t) ==
    \A a \in AllBits(V4Bits) :
        /\ lookup_host(t, V4Str(a)) = lookup_host(t, V6Str(MappedPrefix \o a))
        /\ lookup_host(t, V4Str(a)) = lookup_host(t, Via2002(a))

(* C4: in a v6 tree, after alias_ipv4_networks, every IPv4 host address a *)
(* looks up the same result as a v4 literal, as ::ffff:a and as 2002:a::. *)
C4_AliasSharing ==
    (last.op = "alias" /\ tree.ip_version = 6) => AliasLookupsAgree(tree)

(* the nodes reachable from the root, in pre-order, each once *)
RECURSIVE PreOrderFrom(_, _, _)

PreOrderRight(t, node, acc) ==
    IF Node(t, node).right_record.type = MMDBW_RECORD_TYPE_NODE
    THEN PreOrderFrom(t, Node(t, node).right_record.value, acc)
    ELSE acc

PreOrderFrom(t, node, acc) ==
    IF \E i \in 1..Len(acc) : acc[i] = node
    THEN acc
    ELSE PreOrderRight(
             t, node,
             IF Node(t, node).left_record.type = MMDBW_RECORD_TYPE_NODE
             THEN PreOrderFrom(t, Node(t, node).left_record.value,
                               Append(acc, node))
             ELSE Append(acc, node))

PreOrder(t) == PreOrderFrom(t, t.root_node, << >>)

NumberedAs(t, order) ==
    /\ t.node_count = Len(order)
    /\ \A i \in 1..Len(order) : Node(t, order[i]).number = i - 1

(* C5: whenever finalize returns, the reachable nodes are numbered        *)
(* 0..node_count-1 in pre-order, each once, and node_count is their       *)
(* number.                                                                *)
C5_NumberedInPreOrder ==
    last.op = "finalize" => NumberedAs(tree, PreOrder(tree))

FlagAfter(c, b, t) ==
    /\ Returned(c) => ~t.is_finalized
    /\ (c.op \in {"delete", "delete_reserved", "alias"}
        /\ b.node_pool # t.node_pool) => ~t.is_finalized
    /\ c.op \in {"contains", "lookup"} => t.is_finalized = b.is_finalized

(* C6: after insert, after a delete or delete_reserved_networks that      *)
(* changed a record or allocated a node, and after an alias that          *)
(* installed an alias, is_finalized is false; contains and lookup leave   *)
(* the flag as it was.                                                    *)
C6_MutationClearsFinalized ==
    Len(history) >= 1
        => FlagAfter(last, history[Len(history)].before.tree, tree)

BytesPerNode(t) ==
    IF t.record_size = 24 THEN 6 ELSE IF t.record_size = 28 THEN 7 ELSE 8

(* the blobs the last call appended to the output *)
Written(h) == SubSeq(output, Len(h.before.output) + 1, Len(output))

WrittenSize(t, blobs) ==
    /\ Len(blobs) = Len(PreOrder(t))
    /\ \A i \in 1..Len(blobs) : Len(blobs[i]) = BytesPerNode(t)
    /\ (t.ip_version = 6 /\ t.record_size = 32 /\ t.next_node = 1
        /\ Node(t, t.root_node).left_record = EmptyRecord
        /\ Node(t, t.root_node).right_record = EmptyRecord)
           => blobs = << Rep(0, 8) >>

(* C7: write_search_tree writes one blob of bytes_per_node bytes per      *)
(* reachable node and nothing else; an empty v6 tree with record_size 32  *)
(* gives exactly 8 zero bytes.                                            *)
C7_WriteSize ==
    last.op = "write" => WrittenSize(tree, Written(history[Len(history)]))

(* fin: the tree as finalize leaves it *)
EncodedAsNumbered(t, blobs, fin) ==
    /\ t.node_count = fin.node_count
    /\ \A n \in 1..Len(fin.node_pool) :
          t.node_pool[n].number = fin.node_pool[n].number
    /\ Len(blobs) = Len(PreOrder(fin))
    /\ \A k \in 1..Len(blobs) :
          \E i \in 1..Len(PreOrder(fin)), byte_order \in ByteOrders :
              /\ Node(fin, PreOrder(fin)[i]).number = k - 1
              /\ blobs[k] = encode_node([tree |-> fin, output |-> << >>,
                                         byte_order |-> byte_order],
                                        PreOrder(fin)[i]).output[1]

(* C8: the k-th blob write_search_tree emits is the encoding of the node  *)
(* numbered k by finalize, NODE records encoded as their child's number,  *)
(* and on return every number and node_count are as finalize assigned.    *)
C8_EncodeOrder ==
    last.op = "write"
        => EncodedAsNumbered(tree, Written(history[Len(history)]),
                             finalize_tree(history[Len(history)].before).tree)

RefCount(refcnt, k) == IF k \in DOMAIN refcnt THEN refcnt[k] ELSE 0

(* the DATA records with key k in the nodes of order *)
DataRecords(t, order, k) ==
    {r \in (1..Len(order)) \X {"left", "right"} :
        (IF r[2] = "left"
         THEN Node(t, order[r[1]]).left_record
         ELSE Node(t, order[r[1]]).right_record) = DataRecord(k)}

DecrementedOnce(b, refcnt) ==
    \A k \in Keys :
        RefCount(b.key_refcnt, k) - RefCount(refcnt, k)
            = Cardinality(DataRecords(b.tree, PreOrder(b.tree), k))

(* C9: free_tree decrements the reference count of the key of every DATA  *)
(* record in a reachable node exactly once per record.                    *)
C9_KeysReleasedOnce ==
    last.op = "free"
        => DecrementedOnce(history[Len(history)].before, key_refcnt)

DeletedIsGone(t, n) ==
    /\ ~contains(t, n)
    /\ \A a \in Hosts(t) : Inside(t, a, n) => lookup_host(t, a) = PL_sv_undef

(* the prefixes delete_reserved_networks deletes from tree t *)
ReservedNetworks(t) ==
    IF t.ip_version = 4
    THEN {Net(ipv4_reserved[i].ipstr, ipv4_reserved[i].mask_length) :
             i \in 1..Len(ipv4_reserved)}
    ELSE {Net(ipv4_reserved[i].ipstr,
              ipv4_reserved[i].mask_length + ZeroBits + OnesBits) :
             i \in 1..Len(ipv4_reserved)}
         \cup {Net(ipv6_reserved[i].ipstr, ipv6_reserved[i].mask_length) :
                  i \in 1..Len(ipv6_reserved)}

(* C10: after delete(n) with mask length in [1, max_depth], and after     *)
(* delete_reserved_networks for each reserved prefix n, contains(n) is    *)
(* false and every host address inside n is not found.                    *)
C10_DeletedIsGone ==
    /\ (last.op = "delete"
        /\ ~(tree.ip_version = 4 /\ last.ipstr.lit = "v6")
        /\ last.mask_length \in 1..MaxDepth(tree))
           => DeletedIsGone(tree, CallNet(last))
    /\ last.op = "delete_reserved"
           => \A n \in ReservedNetworks(tree) : DeletedIsGone(tree, n)

(* C10 witness: a prefix n covered by the shorter prefix q inserted just  *)
(* before was deleted, and a host of q outside n still has q's value.     *)
C10_Witness ==
    /\ Len(history) >= 2
    /\ last.op = "delete"
    /\ Returned(history[Len(history) - 1].call)
    /\ history[Len(history) - 1].call.mask_length >= 1
    /\ StrictlyInside(tree, CallNet(last),
                      CallNet(history[Len(history) - 1].call))
    /\ \E a \in Hosts(tree) :
          /\ ~Inside(tree, a, CallNet(last))
          /\ lookup_host(tree, a) = history[Len(history) - 1].call.data

(* the state of the last call's start *)
Before == history[Len(history)].before

(* every call so far that took a mask length took one in [1, max_depth] *)
MasksInRange ==
    \A i \in 1..Len(history) :
        history[i].call.op \in {"insert", "delete", "contains"}
            => history[i].call.mask_length \in 1..MaxDepth(tree)

(* C11: contains and lookup leave the tree as it was: every record of     *)
(* every node, the number of allocated nodes, all node numbers,           *)
(* node_count and the finalized flag.                                     *)
C11_ReadOnly ==
    last.op \in {"contains", "lookup"} => tree = Before.tree

(* C11 witness: a lookup whose descent went through a NODE record of the  *)
(* root and stopped on a DATA record.                                     *)
C11_Witness ==
    /\ last.op = "lookup"
    /\ last.ret \in {"v1", "v2"}
    /\ RecordOf(tree, tree.root_node,
                ResolvedBits(tree, last.ipstr)[1] = 1).type
          = MMDBW_RECORD_TYPE_NODE

(* C13: insert of a v6 network into a v4 tree returns the error result    *)
(* and changes no record, node, data-hash entry, reference count or flag. *)
C13_RejectedInsertChangesNothing ==
    (last.op = "insert" /\ tree.ip_version = 4 /\ last.ipstr.lit = "v6")
        => (last.ret = "-1" /\ World = Before)

(* C13 witness: the rejected insert was made on a finalized tree that     *)
(* holds data.                                                            *)
C13_Witness ==
    /\ last.op = "insert"
    /\ last.ret = "-1"
    /\ Before.tree.is_finalized
    /\ DOMAIN Before.tree.data_hash # {}

(* C15: every insert with mask length in [1, max_depth] returns: its      *)
(* chain of recursive calls is finite.                                    *)
C15_InsertReturns ==
    (MasksInRange /\ last.op = "insert") => last.ret # "overflow"

(* C16: in a tree built with mask lengths in [1, max_depth], the record   *)
(* a lookup of a host address selects is EMPTY or DATA, never NODE.       *)
C16_LookupNeverOnNode ==
    MasksInRange => \A a \in Hosts(tree) : lookup_host(tree, a) # "croak"

NoAliasCall == \A i \in 1..Len(history) : history[i].call.op # "alias"

(* the last call was an insert that returned or a delete the tree accepts *)
Mutated(c) ==
    \/ Returned(c)
    \/ (c.op = "delete" /\ ~(tree.ip_version = 4 /\ c.ipstr.lit = "v6"))

OutsideUnchanged(b, t, n) ==
    \A a \in Hosts(t) :
        ~Inside(t, a, n) => lookup_host(t, a) = lookup_host(b, a)

(* C17: without alias calls, an insert or delete of n with mask length in *)
(* [1, max_depth] leaves the lookup of every host outside n unchanged.    *)
C17_OutsideUnchanged ==
    (Mutated(last) /\ last.mask_length \in 1..MaxDepth(tree) /\ NoAliasCall)
        => OutsideUnchanged(Before.tree, tree, CallNet(last))

(* C17 witness: a delete split a DATA record: nodes were allocated and a  *)
(* host of the covering prefix outside n kept its value.                  *)
C17_Witness ==
    /\ last.op = "delete"
    /\ NoAliasCall
    /\ last.mask_length \in 2..MaxDepth(tree)
    /\ tree.next_node > Before.tree.next_node
    /\ \E a \in Hosts(tree) :
          /\ ~Inside(tree, a, CallNet(last))
          /\ Inside(tree, a, Net(last.ipstr, last.mask_length - 1))
          /\ lookup_host(tree, a) \in {"v1", "v2"}
          /\ lookup_host(tree, a) = lookup_host(Before.tree, a)

(* C18: delete(n) on a tree where the descent for n ends on an EMPTY      *)
(* record changes nothing.                                                *)
C18_DeleteOfEmptyNoEffect ==
    (last.op = "delete" /\ ~contains(Before.tree, CallNet(last)))
        => World = Before

(* C18 witness: the tree held nodes, and the path to n, two or more bits  *)
(* long, was not materialized.                                            *)
C18_Witness ==
    /\ last.op = "delete"
    /\ last.mask_length >= 2
    /\ ~contains(Before.tree, CallNet(last))
    /\ Before.tree.next_node >= 2
    /\ tree.next_node = Before.tree.next_node

(* C14: every tree that exists has ip_version 4 or 6 and record_size 24,  *)
(* 28 or 32, new_tree having rejected every other value.                  *)
C14_TreeArgsValid ==
    tree.ip_version \in {4, 6} /\ tree.record_size \in {24, 28, 32}

(* C19: every node handed out lies inside the pool's allocation, and      *)
(* allocated_nodes is the number of nodes the allocation holds.           *)
C19_HandlesInsidePool ==
    PoolIntact(tree) /\ tree.allocated_nodes * node_size = tree.pool_bytes

(* the big-endian bytes X[0] .. X[3] of a 32-bit value, X[i] as x[i + 1] *)
BigEndian(x) == << x[1] \div 256, x[1] % 256, x[2] \div 256, x[2] % 256 >>

Packed(record_size, l, r) ==
    IF record_size = 24
    THEN << l[2], l[3], l[4], r[2], r[3], r[4] >>
    ELSE IF record_size = 28
    THEN << l[2], l[3], l[4], ((l[1] % 16) * 16) + (r[1] % 16),
            r[2], r[3], r[4] >>
    ELSE l \o r

(* C12: the blob encode_node writes for a node is the packing of the      *)
(* big-endian bytes of its two record values, for record sizes 24, 28     *)
(* and 32.                                                                *)
C12_BigEndianPacking ==
    last.op = "encode_node"
        => last.blob
             = Packed(tree.record_size,
                      BigEndian(record_value_as_number(
                                    tree, Node(tree, last.node).left_record)),
                      BigEndian(record_value_as_number(
                                    tree, Node(tree, last.node).right_record)))

(* a >= b for 32-bit values *)
Ge32(a, b) == a[1] > b[1] \/ (a[1] = b[1] /\ a[2] >= b[2])

(* the values of the NODE and EMPTY records of tree t *)
NodeAndEmptyValues(t) ==
    {record_value_as_number(t, RecordOf(t, n, is_right)) :
        <<n, is_right>> \in
            {x \in (0..(t.next_node - 1)) \X BOOLEAN :
                RecordOf(t, x[1], x[2]).type # MMDBW_RECORD_TYPE_DATA}}

ValueOfKind(t, record, value) ==
    IF record.type = MMDBW_RECORD_TYPE_EMPTY
    THEN value = U32(0)
    ELSE IF record.type = MMDBW_RECORD_TYPE_NODE
    THEN /\ value = U32(Node(t, record.value).number)
         /\ Node(t, record.value).number \in 0..(t.node_count - 1)
    ELSE /\ Ge32(value, U32(t.node_count + DATA_SECTION_SEPARATOR_SIZE))
         /\ value \notin NodeAndEmptyValues(t)

(* C20: in a finalized tree the value of an EMPTY record is 0, of a NODE  *)
(* record its child's number, below node_count, and of a DATA record at   *)
(* least node_count + 16 and different from every NODE and EMPTY value.   *)
C20_ValuesNeverCollide ==
    (last.op = "record_value_as_number" /\ tree.is_finalized)
        => ValueOfKind(tree, last.record, last.value)

RECURSIVE NodeAtDepth(_, _, _, _)

(* the node d NODE records below node along bits, NULL if there is none *)
NodeAtDepth(t, node, bits, d) ==
    IF d = 0
    THEN node
    ELSE IF RecordOf(t, node, bits[1] = 1).type # MMDBW_RECORD_TYPE_NODE
    THEN NULL
    ELSE NodeAtDepth(t, RecordOf(t, node, bits[1] = 1).value, Tail(bits),
                     d - 1)

(* the record of the prefix of length m along bits, at node (or NULL) *)
PrefixRecordAt(t, node, bits, m, key) ==
    /\ node # NULL
    /\ RecordOf(t, node, bits[m] = 1) = DataRecord(key)

(* every reachable node of the finalized tree encodes to a blob of        *)
(* bytes_per_node bytes, so the search tree is m * bytes_per_node long    *)
SearchTreeSize(fin, order, m) ==
    /\ Len(order) = m
    /\ \A i \in 1..Len(order), byte_order \in ByteOrders :
          Len(encode_node([tree |-> fin, output |-> << >>,
                           byte_order |-> byte_order],
                          order[i]).output[1]) = BytesPerNode(fin)

(* c: the insert of one prefix that made t from an empty tree *)
SinglePrefixPath(t, c, fin) ==
    /\ t.next_node = c.mask_length
    /\ fin.node_count = c.mask_length
    /\ SearchTreeSize(fin, PreOrder(fin), c.mask_length)
    /\ PrefixRecordAt(t,
                      NodeAtDepth(t, t.root_node, ResolvedBits(t, c.ipstr),
                                  c.mask_length - 1),
                      ResolvedBits(t, c.ipstr), c.mask_length, c.key)

InsertsAndDeletesOnly ==
    /\ MasksInRange
    /\ \A i \in 1..Len(history) :
          history[i].call.op \in {"insert", "delete", "contains", "lookup",
                                  "finalize", "write"}

EqualDataSiblings(t, node) ==
    /\ Node(t, node).left_record.type = MMDBW_RECORD_TYPE_DATA
    /\ Node(t, node).right_record = Node(t, node).left_record

MergedForm(t, order) ==
    \A i \in 1..Len(order) :
        order[i] # t.root_node => ~EqualDataSiblings(t, order[i])

(* C22: in a tree made by inserts and deletes with mask lengths in        *)
(* [1, max_depth], no reachable node but the root has two DATA records    *)
(* with the same key.                                                     *)
C22_MergedForm ==
    (status = "live" /\ InsertsAndDeletesOnly)
        => MergedForm(tree, PreOrder(tree))

(* node was reachable before the call, and is no longer *)
Orphaned(b, t, node) ==
    /\ \E i \in 1..Len(PreOrder(b)) : PreOrder(b)[i] = node
    /\ \A i \in 1..Len(PreOrder(t)) : PreOrder(t)[i] # node

(* C22 witness: an insert completed a pair of equal siblings below the    *)
(* root; their node is no longer reachable and the tree is live.          *)
C22_Witness ==
    /\ status = "live"
    /\ InsertsAndDeletesOnly
    /\ Returned(last)
    /\ last.mask_length >= 2
    /\ \E node \in 0..(Before.tree.next_node - 1) :
          /\ Orphaned(Before.tree, tree, node)
          /\ Node(tree, node).left_record = DataRecord(last.key)
          /\ Node(tree, node).right_record = DataRecord(last.key)
          /\ ~EqualDataSiblings(Before.tree, node)
=============================================================================
